---- MODULE Spec2Model ----
(***************************************************************************)
(* Model of the console address book (src/main.py): the Field/Phone/       *)
(* Birthday value classes, Record, AddressBook with its paginating         *)
(* generator, and the command loop of main(); and the command loop of      *)
(* src/main-currying.py.                                                   *)
(*                                                                         *)
(* Spec is main() of src/main.py, SpecCurrying main() of                   *)
(* src/main-currying.py, SpecBook an AddressBook under add_record / find / *)
(* delete, SpecIter an AddressBook and one generator of its iterator,      *)
(* SpecRecord one Record under its methods.                                *)
(*                                                                         *)
(* Python str values are sequences of one-character strings, so that       *)
(* strip, lower, split, startswith, len and isnumeric are computed and not *)
(* assumed.  None is the empty sequence <<>>; an object reference that may *)
(* be None is <<obj>>.  A call that raises is a result whose "raised"      *)
(* field names the exception class ("None" when the call returned).        *)
(***************************************************************************)
EXTENDS Integers, Sequences, FiniteSets, TLC

(***************************************************************************)
(* Bounds of the model.                                                    *)
(***************************************************************************)
MaxPhones == 3          \* phones held by the Record of SpecRecord
MaxPhoneObjects == 5    \* Phone objects SpecRecord ever constructs
MaxPages == 4           \* pages drawn from one generator in SpecBook
MaxPageSize == 3        \* page_size ranges over -MaxPageSize..MaxPageSize
MaxChanges == 2         \* changes of the book while one generator is drawn from

(***************************************************************************)
(* str                                                                     *)
(***************************************************************************)
Whitespace == {" ", "\t", "\n", "\r"}
Digits == {"0", "1", "2", "3", "4", "5", "6", "7", "8", "9"}
UpperAZ == <<"A", "B", "C", "D", "E", "F", "G", "H", "I", "J", "K", "L", "M",
             "N", "O", "P", "Q", "R", "S", "T", "U", "V", "W", "X", "Y", "Z">>
LowerAZ == <<"a", "b", "c", "d", "e", "f", "g", "h", "i", "j", "k", "l", "m",
             "n", "o", "p", "q", "r", "s", "t", "u", "v", "w", "x", "y", "z">>

None == <<>>

lower_char(c) ==
    IF \E i \in 1..Len(UpperAZ) : UpperAZ[i] = c
    THEN LowerAZ[CHOOSE i \in 1..Len(UpperAZ) : UpperAZ[i] = c]
    ELSE c

RECURSIVE lower(_)
lower(s) ==
    IF s = <<>> THEN <<>> ELSE <<lower_char(Head(s))>> \o lower(Tail(s))

RECURSIVE lstrip(_)
lstrip(s) ==
    IF s # <<>> /\ Head(s) \in Whitespace THEN lstrip(Tail(s)) ELSE s

RECURSIVE rstrip(_)
rstrip(s) ==
    IF s # <<>> /\ s[Len(s)] \in Whitespace
    THEN rstrip(SubSeq(s, 1, Len(s) - 1))
    ELSE s

strip(s) == rstrip(lstrip(s))

startswith(s, prefix) ==
    Len(s) >= Len(prefix) /\ SubSeq(s, 1, Len(prefix)) = prefix

\* index of the first sep in s, 0 when there is none
FirstIndex(s, sep) ==
    IF \E i \in 1..Len(s) : s[i] = sep
    THEN CHOOSE i \in 1..Len(s) : s[i] = sep /\ \A j \in 1..(i - 1) : s[j] # sep
    ELSE 0

\* s.split(sep): every separator splits, empty parts are kept
RECURSIVE split(_, _)
split(s, sep) ==
    LET i == FirstIndex(s, sep) IN
    IF i = 0 THEN <<s>>
    ELSE <<SubSeq(s, 1, i - 1)>> \o split(SubSeq(s, i + 1, Len(s)), sep)

\* s.split(sep, 1): at most one split, at the first separator
split1(s, sep) ==
    LET i == FirstIndex(s, sep) IN
    IF i = 0 THEN <<s>>
    ELSE <<SubSeq(s, 1, i - 1), SubSeq(s, i + 1, Len(s))>>

isnumeric(s) == s # <<>> /\ \A i \in 1..Len(s) : s[i] \in Digits

RECURSIVE int(_)
int(s) ==
    IF s = <<>> THEN 0
    ELSE 10 * int(SubSeq(s, 1, Len(s) - 1))
         + (CHOOSE d \in 0..9 : ToString(d) = s[Len(s)])

(***************************************************************************)
(* datetime: [year, month, day, hour]; the time of day is kept to the hour *)
(***************************************************************************)
IsLeap(y) == (y % 4 = 0) /\ ((y % 100 # 0) \/ (y % 400 = 0))

DaysInMonth(y, m) ==
    IF m = 2 THEN (IF IsLeap(y) THEN 29 ELSE 28)
    ELSE IF m \in {4, 6, 9, 11} THEN 30 ELSE 31

RECURSIVE DaysBeforeMonth(_, _)
DaysBeforeMonth(y, m) ==
    IF m = 1 THEN 0 ELSE DaysBeforeMonth(y, m - 1) + DaysInMonth(y, m - 1)

toordinal(d) ==
    LET y == d.year - 1 IN
    365 * y + (y \div 4) - (y \div 100) + (y \div 400)
    + DaysBeforeMonth(d.year, d.month) + d.day

Hours(d) == 24 * toordinal(d) + d.hour

\* datetime.strptime(value, '%d-%m-%Y'): the day and the month are one or two
\* digits, the year is four digits, and the three form a calendar date.
strptime(value) ==
    LET parts == split(value, "-")
        shaped == /\ Len(parts) = 3
                  /\ \A i \in 1..3 : isnumeric(parts[i])
                  /\ Len(parts[1]) \in {1, 2}
                  /\ Len(parts[2]) \in {1, 2}
                  /\ Len(parts[3]) = 4
    IN  IF ~shaped THEN [raised |-> "ValueError", value |-> None]
        ELSE LET d == int(parts[1])
                 m == int(parts[2])
                 y == int(parts[3])
             IN  IF y >= 1 /\ m \in 1..12 /\ d >= 1 /\ d <= DaysInMonth(y, m)
                 THEN [raised |-> "None",
                       value |-> <<[year |-> y, month |-> m, day |-> d, hour |-> 0]>>]
                 ELSE [raised |-> "ValueError", value |-> None]

\* datetime.replace(year=...): 29 February has no image in a common year
replace_year(d, y) ==
    IF d.day <= DaysInMonth(y, d.month)
    THEN [raised |-> "None", value |-> <<[d EXCEPT !.year = y]>>]
    ELSE [raised |-> "ValueError", value |-> None]

(***************************************************************************)
(* Field, Name, Phone, Birthday (src/main.py 30-76)                        *)
(*                                                                         *)
(* Field.value is a property whose setter stores the value.  In Phone and  *)
(* Birthday the decorator @Field.value.setter builds a copy of that        *)
(* property with the validating function as its setter and binds the copy  *)
(* to the class attribute "validate"; the attribute "value" stays the one  *)
(* inherited from Field.  Field.__init__ assigns self.value, so            *)
(* construction stores the value through Field's setter and the validating *)
(* setter runs only on an assignment to obj.validate, which no code of the *)
(* program performs.                                                       *)
(***************************************************************************)
\* Field.__init__: self._value = None; self.value = value
Field(value) == [_value |-> value]

Name(name) == Field(name)

\* A Phone object carries its identity: list.remove compares Phone objects
\* with the default ==, which is identity.
Phone(id, number) == [id |-> id, _value |-> number]

Birthday(value) == Field(value)

\* The setter bound to Phone.validate (an assignment phone.validate = value)
Phone_validate(self, value) ==
    IF Len(value) < 10 \/ Len(value) > 12
    THEN [raised |-> "ValueError", self |-> self]
    ELSE IF ~isnumeric(value)
    THEN [raised |-> "ValueError", self |-> self]
    ELSE [raised |-> "None", self |-> [self EXCEPT !._value = value]]

\* The setter bound to Birthday.validate; today is datetime.now().date()
Birthday_validate(self, value, today) ==
    LET birth_date == strptime(value) IN
    IF birth_date.raised # "None"
    THEN [raised |-> "ValueError", self |-> self]
    ELSE IF toordinal(birth_date.value[1]) > toordinal(today)
    THEN [raised |-> "ValueError", self |-> self]
    ELSE [raised |-> "None", self |-> [self EXCEPT !._value = value]]

\* Birthday.as_datetime
as_datetime(self) == strptime(self._value)

(***************************************************************************)
(* Record (src/main.py 79-119)                                             *)
(***************************************************************************)
\* Python truth of an optional str: None and '' are false
Truthy(opt) == opt # None /\ opt[1] # <<>>

\* Record.__init__(name, birthday=None); birthday is None or <<str>>
Record(name, birthday) ==
    [name |-> Name(name),
     phones |-> <<>>,
     birthday |-> IF Truthy(birthday) THEN <<Birthday(birthday[1])>> ELSE None]

\* Record.add_phone; id is the identity of the Phone object it constructs
add_phone(self, id, number) ==
    [self EXCEPT !.phones = Append(self.phones, Phone(id, number))]

\* list.remove(x): deletes the first item equal to x
list_remove(list, x) ==
    LET i == CHOOSE k \in 1..Len(list) :
                 list[k] = x /\ \A j \in 1..(k - 1) : list[j] # x
    IN  SubSeq(list, 1, i - 1) \o SubSeq(list, i + 1, Len(list))

\* The for loop of Record.remove_phone.  The list iterator holds an index
\* into the list it walks (idx, here from 1) and stops when the index passes
\* the list's current length; the body removes from that same list.
RECURSIVE remove_phone_loop(_, _, _)
remove_phone_loop(phones, idx, number) ==
    IF idx > Len(phones) THEN phones
    ELSE IF phones[idx]._value = number
    THEN remove_phone_loop(list_remove(phones, phones[idx]), idx + 1, number)
    ELSE remove_phone_loop(phones, idx + 1, number)

\* Record.remove_phone
remove_phone(self, number) ==
    [self EXCEPT !.phones = remove_phone_loop(self.phones, 1, number)]

\* [phone.value for phone in self.phones]
phone_values(self) == [i \in 1..Len(self.phones) |-> self.phones[i]._value]

\* Record.edit_phone; id is the identity of the Phone object add_phone makes
edit_phone(self, id, old_number, new_number) ==
    IF \E i \in 1..Len(self.phones) : self.phones[i]._value = old_number
    THEN [raised |-> "None",
          self |-> add_phone(remove_phone(self, old_number), id, new_number)]
    ELSE [raised |-> "ValueError", self |-> self]

\* Record.find_phone: the first phone with that value, or None
find_phone(self, number) ==
    IF \E i \in 1..Len(self.phones) : self.phones[i]._value = number
    THEN <<self.phones[CHOOSE i \in 1..Len(self.phones) :
                /\ self.phones[i]._value = number
                /\ \A j \in 1..(i - 1) : self.phones[j]._value # number]>>
    ELSE None

\* Record.days_to_birthday(birthday_date=None); today is datetime.now().
\* birthday_date is None or <<datetime>>.  A Birthday object is always true.
\* The parsed birthday (as_datetime) is computed and dropped; the dates are
\* taken from the argument, and None has no attribute "replace".
days_to_birthday(self, birthday_date, today) ==
    IF self.birthday = None THEN [raised |-> "None", value |-> None]
    ELSE IF as_datetime(self.birthday[1]).raised # "None"
    THEN [raised |-> "ValueError", value |-> None]
    ELSE IF birthday_date = None
    THEN [raised |-> "AttributeError", value |-> None]
    ELSE LET this_year == replace_year(birthday_date[1], today.year) IN
         IF this_year.raised # "None"
         THEN [raised |-> "ValueError", value |-> None]
         ELSE IF Hours(today) > Hours(this_year.value[1])
         THEN LET next_year == replace_year(birthday_date[1], today.year + 1) IN
              IF next_year.raised # "None"
              THEN [raised |-> "ValueError", value |-> None]
              ELSE [raised |-> "None",
                    value |-> <<(Hours(next_year.value[1]) - Hours(today)) \div 24>>]
         ELSE [raised |-> "None",
               value |-> <<(Hours(this_year.value[1]) - Hours(today)) \div 24>>]

NotSpecified == <<"N", "o", "t", " ", "s", "p", "e", "c", "i", "f", "i", "e", "d">>

\* Record.__str__: the three values the f-string renders
Record_str(self) ==
    [Name |-> self.name._value,
     Phones |-> phone_values(self),
     Birthday |-> IF self.birthday # None THEN self.birthday[1]._value
                  ELSE NotSpecified]

(***************************************************************************)
(* AddressBook (src/main.py 5-27).  self.data is a dict: a sequence of     *)
(* [key, value] items in insertion order, one item per key.                *)
(***************************************************************************)
dict_contains(data, key) == \E i \in 1..Len(data) : data[i].key = key

dict_index(data, key) == CHOOSE i \in 1..Len(data) : data[i].key = key

dict_getitem(data, key) == data[dict_index(data, key)].value

\* data[key] = value: a present key keeps its place, a new key goes last
dict_setitem(data, key, value) ==
    IF dict_contains(data, key)
    THEN [data EXCEPT ![dict_index(data, key)].value = value]
    ELSE Append(data, [key |-> key, value |-> value])

\* del data[key], the key being present
dict_delitem(data, key) ==
    LET i == dict_index(data, key) IN
    SubSeq(data, 1, i - 1) \o SubSeq(data, i + 1, Len(data))

\* list(data.values())
dict_values(data) == [i \in 1..Len(data) |-> data[i].value]

\* AddressBook.add_record
add_record(data, record) == dict_setitem(data, record.name._value, record)

\* AddressBook.find: the record, or None (the method falls off its end)
find(data, name) ==
    IF dict_contains(data, name) THEN <<dict_getitem(data, name)>> ELSE None

\* delete as self.data.popitem() would have it: the last item goes
delete_popitem(data, name) ==
    IF dict_contains(data, name) THEN SubSeq(data, 1, Len(data) - 1) ELSE data

\* AddressBook.delete
delete(data, name) ==
    IF dict_contains(data, name) THEN dict_delitem(data, name) ELSE data

\* AddressBook.__str__: one rendered record per line
AddressBook_str(data) == [i \in 1..Len(data) |-> Record_str(data[i].value)]

\* list[lo:hi] of Python: a negative index counts from the end, both indices
\* are clamped to the list, and an empty range gives []
Clamp(i, n) == IF i < 0 THEN (IF i + n < 0 THEN 0 ELSE i + n)
               ELSE IF i > n THEN n ELSE i

slice(list, lo, hi) ==
    SubSeq(list, Clamp(lo, Len(list)) + 1, Clamp(hi, Len(list)))

(***************************************************************************)
(* State                                                                   *)
(***************************************************************************)
VARIABLES
    address_book,   \* AddressBook.data
    state,          \* main(): "Running", "Terminated" (break), "Crashed"
                    \*   (an exception left main)
    output,         \* main(): what the last command printed
    command,        \* main(): the last line read, stripped and lower-cased
    book_before,    \* address_book before the last command or call
    generator,      \* the generator object AddressBook.iterator returned
    pages,          \* the pages drawn from it so far
    at_call,        \* list(data.values()) when iterator was called
    modified,       \* changes of the book since iterator was called
    last_added,     \* name -> the record last added and not deleted since
    call,           \* the last method call: its name, arguments and outcome
    record,         \* the Record of SpecRecord
    record_before,  \* that Record before the last call
    next_id         \* identity of the next Phone object

vars == <<address_book, state, output, command, book_before, generator, pages,
          at_call, modified, last_added, call, record, record_before,
          next_id>>

loop_vars == <<state, output, command>>
book_vars == <<generator, pages, at_call, modified, last_added>>
record_vars == <<record, record_before, next_id>>

(***************************************************************************)
(* Input lines of the command loop                                         *)
(***************************************************************************)
SP == <<" ">>
w_add == <<"a", "d", "d">>
w_delete == <<"d", "e", "l", "e", "t", "e">>
w_find == <<"f", "i", "n", "d">>
w_edit == <<"e", "d", "i", "t">>
w_show_all == <<"s", "h", "o", "w", " ", "a", "l", "l">>
w_show == <<"s", "h", "o", "w">>
w_birthday == <<"b", "i", "r", "t", "h", "d", "a", "y">>
w_good_bye == <<"g", "o", "o", "d", " ", "b", "y", "e">>
w_close == <<"c", "l", "o", "s", "e">>
w_exit == <<"e", "x", "i", "t">>
w_help == <<"h", "e", "l", "p">>
alice == <<"a", "l", "i", "c", "e">>
bob == <<"b", "o", "b">>
phone10 == <<"1", "2", "3", "4", "5", "6", "7", "8", "9", "0">>
phone10b == <<"0", "9", "8", "7", "6", "5", "4", "3", "2", "1">>
phone3 == <<"1", "2", "3">>
phone10x == <<"1", "2", "3", "4", "5", "a", "b", "c", "d", "e">>
bday_ok == <<"0", "1", "-", "0", "6", "-", "1", "9", "9", "0">>
bday_bad == <<"3", "1", "-", "0", "2", "-", "2", "0", "0", "0">>

Names == {alice, bob}
BirthdayArgs == {bday_ok, bday_bad}
TerminalPhrases == {w_good_bye, w_close, w_exit}

Lines ==
    {w_add \o SP \o n \o SP \o p : n \in Names, p \in {phone10, phone3}}
    \cup {w_add \o SP \o n \o SP \o phone10 \o SP \o b :
              n \in Names, b \in BirthdayArgs}
    \cup {w_add \o SP \o alice \o SP \o phone10x}
    \cup {w_add \o SP \o n : n \in Names}
    \cup {w_add \o SP \o bob \o SP \o SP \o phone10}
    \cup {<<"A", "D", "D", " ", "B", "o", "b", " ", "1", "2", "3", "4", "5", "6", "7", "8", "9", "0", "1">>}
    \cup {w_delete \o SP \o n : n \in Names}
    \cup {w_delete \o SP \o alice \o SP \o bob}
    \cup {w_find \o SP \o n : n \in Names}
    \cup {w_edit \o SP \o n \o SP \o p : n \in Names, p \in {phone10b, phone3}}
    \cup {w_edit \o SP \o alice}
    \cup {w_edit \o SP \o alice \o SP \o phone10 \o SP \o phone10b}
    \cup {w_birthday \o SP \o n : n \in Names}
    \cup {w_show_all, w_show, w_help, <<>>, w_add, w_delete, w_birthday}
    \cup TerminalPhrases
    \cup {<<" ", " ", "E", "X", "I", "T", " ">>, <<"G", "o", "o", "d", " ", "B", "y", "e">>, <<"e", "x", "i", "t", " ", "n", "o", "w">>}

\* input(...).strip().lower() of every line, and its split(' ')
Inputs ==
    {[line |-> l,
      cmd |-> lower(strip(l)),
      parts |-> split(lower(strip(l)), " "),
      rest |-> split1(lower(strip(l)), " ")] : l \in Lines}

\* datetime.now() as the loop may read it
Clock == {[year |-> 2026, month |-> 11, day |-> 3, hour |-> 0],
          [year |-> 2026, month |-> 11, day |-> 3, hour |-> 12],
          [year |-> 2024, month |-> 2, day |-> 29, hour |-> 9],
          [year |-> 1990, month |-> 6, day |-> 1, hour |-> 0]}

Out(msg, name, text) ==
    [msg |-> msg, name |-> name, text |-> text, days |-> 0, exc |-> "None"]

Call(op, args, result, raised) ==
    [op |-> op, args |-> args, result |-> result, raised |-> raised]
NoCall == Call("none", <<>>, None, "None")
NoGenerator == [pc |-> "none", page_size |-> 0, current_page |-> 0]
NoRecord == Record(alice, None)

\* what the other specifications' variables hold while one runs
BookIdle ==
    /\ generator = NoGenerator /\ pages = <<>> /\ at_call = <<>>
    /\ modified = 0 /\ last_added = <<>>
RecordIdle == record = NoRecord /\ record_before = NoRecord /\ next_id = 0
LoopIdle == state = "Running" /\ output = Out("", <<>>, <<>>) /\ command = <<>>

(***************************************************************************)
(* main() (src/main.py 122-181): one action per branch of the if chain.    *)
(* Each reads a line, strips and lower-cases it, and handles it.           *)
(***************************************************************************)
Init ==
    /\ address_book = <<>>
    /\ book_before = <<>>
    /\ call = NoCall
    /\ LoopIdle /\ BookIdle /\ RecordIdle

\* the loop keeps the variables of the other specifications
Handled(inp) ==
    /\ command' = inp.cmd
    /\ book_before' = address_book
    /\ UNCHANGED <<book_vars, record_vars, call>>

\* set_phones as record.phones.append(Phone(new_phone)) would have it
set_phones_append(self, new_phone) ==
    [self EXCEPT !.phones = Append(self.phones, Phone(0, new_phone))]

\* record.phones = [Phone(new_phone)]
set_phones(self, new_phone) == [self EXCEPT !.phones = <<Phone(0, new_phone)>>]

\* the record the add branch builds: Record(name, birthday), add_phone(phone)
new_record(parts) ==
    LET birthday == IF Len(parts) > 3 THEN <<parts[4]>> ELSE None
    IN  add_phone(Record(parts[2], birthday), 0, parts[3])

main_add ==
    \E inp \in Inputs :
        LET cmd == inp.cmd
            parts == inp.parts
        IN  /\ state = "Running"
            /\ startswith(cmd, w_add \o SP)
            /\ IF Len(parts) < 3
               THEN /\ output' = Out("Invalid command. Use 'add'", <<>>, <<>>)
                    /\ UNCHANGED address_book
               ELSE /\ address_book' = add_record(address_book, new_record(parts))
                    /\ output' = Out("Record added", parts[2], <<>>)
            /\ state' = "Running"
            /\ Handled(inp)

main_delete ==
    \E inp \in Inputs :
        LET cmd == inp.cmd
            name == inp.rest[2]
        IN  /\ state = "Running"
            /\ startswith(cmd, w_delete \o SP)
            /\ address_book' = delete(address_book, name)
            /\ output' = Out("Record deleted", name, <<>>)
            /\ state' = "Running"
            /\ Handled(inp)

main_find ==
    \E inp \in Inputs :
        LET cmd == inp.cmd
            name == inp.rest[2]
            found == find(address_book, name)
        IN  /\ state = "Running"
            /\ startswith(cmd, w_find \o SP)
            /\ output' = IF found # None
                         THEN Out("Found record", name, <<Record_str(found[1])>>)
                         ELSE Out("No record found", name, <<>>)
            /\ state' = "Running"
            /\ UNCHANGED address_book
            /\ Handled(inp)

main_edit ==
    \E inp \in Inputs :
        LET cmd == inp.cmd
            parts == inp.parts
            found == find(address_book, parts[2])
        IN  /\ state = "Running"
            /\ startswith(cmd, w_edit \o SP)
            /\ IF Len(parts) # 3
               THEN /\ output' = Out("Invalid command. Use 'edit'", <<>>, <<>>)
                    /\ UNCHANGED address_book
               ELSE IF found # None
               THEN /\ address_book' =
                           dict_setitem(address_book, parts[2],
                                        set_phones(found[1], parts[3]))
                    /\ output' = Out("Phone number edited", parts[2], <<>>)
               ELSE /\ output' = Out("No record found", parts[2], <<>>)
                    /\ UNCHANGED address_book
            /\ state' = "Running"
            /\ Handled(inp)

main_show_all ==
    \E inp \in Inputs :
        LET cmd == inp.cmd
        IN  /\ state = "Running"
            /\ cmd = w_show_all
            /\ output' = Out("show all", <<>>, AddressBook_str(address_book))
            /\ state' = "Running"
            /\ UNCHANGED address_book
            /\ Handled(inp)

main_birthday ==
    \E inp \in Inputs, today \in Clock :
        LET cmd == inp.cmd
            name == inp.rest[2]
            found == find(address_book, name)
            days_left == days_to_birthday(found[1], None, today)
        IN  /\ state = "Running"
            /\ startswith(cmd, w_birthday \o SP)
            /\ IF found = None
               THEN /\ output' = Out("No record found", name, <<>>)
                    /\ state' = "Running"
               ELSE IF days_left.raised # "None"
               THEN /\ output' = [Out("Traceback", <<>>, <<>>)
                                    EXCEPT !.exc = days_left.raised]
                    /\ state' = "Crashed"
               ELSE IF days_left.value # None
               THEN /\ output' = [Out("Days left", name, <<>>)
                                    EXCEPT !.days = days_left.value[1]]
                    /\ state' = "Running"
               ELSE /\ output' = Out("has no birthday specified", name, <<>>)
                    /\ state' = "Running"
            /\ UNCHANGED address_book
            /\ Handled(inp)

main_exit ==
    \E inp \in Inputs :
        LET cmd == inp.cmd
        IN  /\ state = "Running"
            /\ cmd \in TerminalPhrases
            /\ output' = Out("Good bye!", <<>>, <<>>)
            /\ state' = "Terminated"
            /\ UNCHANGED address_book
            /\ Handled(inp)

main_else ==
    \E inp \in Inputs :
        LET cmd == inp.cmd
        IN  /\ state = "Running"
            /\ ~startswith(cmd, w_add \o SP)
            /\ ~startswith(cmd, w_delete \o SP)
            /\ ~startswith(cmd, w_find \o SP)
            /\ ~startswith(cmd, w_edit \o SP)
            /\ cmd # w_show_all
            /\ ~startswith(cmd, w_birthday \o SP)
            /\ cmd \notin TerminalPhrases
            /\ output' = Out("Invalid command.", <<>>, <<>>)
            /\ state' = "Running"
            /\ UNCHANGED address_book
            /\ Handled(inp)

Next ==
    \/ main_add
    \/ main_delete
    \/ main_find
    \/ main_edit
    \/ main_show_all
    \/ main_birthday
    \/ main_exit
    \/ main_else

Spec == Init /\ [][Next]_vars

(***************************************************************************)
(* main() of src/main-currying.py (181-194) with its handlers (114-168).   *)
(* The classes of that file are those of src/main.py, but for Field, which *)
(* keeps the value in a plain attribute; there too no validate method is   *)
(* ever called.  The handlers are wrapped by decorator.input_error, which  *)
(* is not among the sources: it is taken to return the handler's result,   *)
(* and a message when the handler raised.                                  *)
(***************************************************************************)
COMMANDS == {w_add, w_delete, w_find, w_edit, w_show, w_birthday}

\* what a handler hands back: the text it returns, or the exception it raised
Returned(msg, name, text) == [raised |-> "None", out |-> Out(msg, name, text)]
Raised(exc) == [raised |-> exc, out |-> Out("", <<>>, <<>>)]

input_error(result) ==
    IF result.raised = "None" THEN result.out
    ELSE [Out("input error", <<>>, <<>>) EXCEPT !.exc = result.raised]

\* the loop prints a result that is true
Printed(out) ==
    /\ output' = out
    /\ state' = "Running"

add_func ==
    \E inp \in Inputs :
        LET parts == inp.parts IN
        /\ state = "Running"
        /\ inp.cmd \notin TerminalPhrases
        /\ parts[1] = w_add
        /\ IF Len(parts) < 3
           THEN /\ Printed(input_error(Raised("ValueError")))
                /\ UNCHANGED address_book
           ELSE /\ address_book' = add_record(address_book, new_record(parts))
                /\ Printed(input_error(Returned("Record added", parts[2], <<>>)))
        /\ Handled(inp)

del_func ==
    \E inp \in Inputs :
        LET parts == inp.parts IN
        /\ state = "Running"
        /\ inp.cmd \notin TerminalPhrases
        /\ parts[1] = w_delete
        /\ IF Len(parts) # 2
           THEN /\ Printed(input_error(Raised("ValueError")))
                /\ UNCHANGED address_book
           ELSE /\ address_book' = delete(address_book, parts[2])
                /\ Printed(input_error(Returned("Record deleted", parts[2], <<>>)))
        /\ Handled(inp)

find_func ==
    \E inp \in Inputs :
        LET parts == inp.parts
            found == find(address_book, parts[2])
        IN  /\ state = "Running"
            /\ inp.cmd \notin TerminalPhrases
            /\ parts[1] = w_find
            /\ Printed(input_error(
                   IF Len(parts) # 2 THEN Raised("ValueError")
                   ELSE IF found # None
                   THEN Returned("Found record", parts[2], <<Record_str(found[1])>>)
                   ELSE Returned("No record found", parts[2], <<>>)))
            /\ UNCHANGED address_book
            /\ Handled(inp)

edit_func ==
    \E inp \in Inputs :
        LET parts == inp.parts
            found == find(address_book, parts[2])
        IN  /\ state = "Running"
            /\ inp.cmd \notin TerminalPhrases
            /\ parts[1] = w_edit
            /\ IF Len(parts) # 3
               THEN /\ Printed(input_error(Raised("ValueError")))
                    /\ UNCHANGED address_book
               ELSE IF found # None
               THEN /\ address_book' =
                           dict_setitem(address_book, parts[2],
                                        set_phones(found[1], parts[3]))
                    /\ Printed(input_error(
                           Returned("Phone number edited", parts[2], <<>>)))
               ELSE /\ Printed(input_error(
                           Returned("No record found", parts[2], <<>>)))
                    /\ UNCHANGED address_book
            /\ Handled(inp)

\* show_func returns the book itself, which is false when it is empty: the
\* loop then prints nothing
show_func ==
    \E inp \in Inputs :
        /\ state = "Running"
        /\ inp.cmd \notin TerminalPhrases
        /\ inp.parts[1] = w_show
        /\ Printed(IF address_book # <<>>
                   THEN input_error(
                            Returned("show", <<>>, AddressBook_str(address_book)))
                   ELSE Out("", <<>>, <<>>))
        /\ UNCHANGED address_book
        /\ Handled(inp)

birthday_func ==
    \E inp \in Inputs, today \in Clock :
        LET parts == inp.parts
            found == find(address_book, parts[2])
            days_left == days_to_birthday(found[1], None, today)
        IN  /\ state = "Running"
            /\ inp.cmd \notin TerminalPhrases
            /\ parts[1] = w_birthday
            /\ Printed(input_error(
                   IF Len(parts) # 2 THEN Raised("ValueError")
                   ELSE IF found = None
                   THEN Returned("No record found", parts[2], <<>>)
                   ELSE IF days_left.raised # "None"
                   THEN Raised(days_left.raised)
                   ELSE IF days_left.value # None
                   THEN [Returned("Days left", parts[2], <<>>)
                           EXCEPT !.out.days = days_left.value[1]]
                   ELSE Returned("has no birthday specified", parts[2], <<>>)))
            /\ UNCHANGED address_book
            /\ Handled(inp)

currying_exit ==
    \E inp \in Inputs :
        /\ state = "Running"
        /\ inp.cmd \in TerminalPhrases
        /\ output' = Out("Good bye!", <<>>, <<>>)
        /\ state' = "Terminated"
        /\ UNCHANGED address_book
        /\ Handled(inp)

currying_else ==
    \E inp \in Inputs :
        /\ state = "Running"
        /\ inp.cmd \notin TerminalPhrases
        /\ inp.parts[1] \notin COMMANDS
        /\ Printed(Out("Invalid command.", <<>>, <<>>))
        /\ UNCHANGED address_book
        /\ Handled(inp)

NextCurrying ==
    \/ add_func
    \/ del_func
    \/ find_func
    \/ edit_func
    \/ show_func
    \/ birthday_func
    \/ currying_exit
    \/ currying_else

SpecCurrying == Init /\ [][NextCurrying]_vars

(***************************************************************************)
(* AddressBook driven through add_record, find and delete                  *)
(* (src/main.py 5-15).                                                     *)
(***************************************************************************)
carol == <<"c", "a", "r", "o", "l">>
BookNames == {alice, bob, carol}
BookRecords ==
    {add_phone(Record(n, None), 0, phone10) : n \in BookNames}
    \cup {add_phone(Record(alice, <<bday_ok>>), 0, phone10b)}

InitBook ==
    /\ address_book = <<>>
    /\ book_before = <<>>
    /\ call = NoCall
    /\ generator = NoGenerator
    /\ pages = <<>>
    /\ at_call = <<>>
    /\ modified = 0
    /\ last_added = [n \in BookNames |-> None]
    /\ LoopIdle /\ RecordIdle

book_add_record ==
    \E r \in BookRecords :
        /\ address_book' = add_record(address_book, r)
        /\ last_added' = [last_added EXCEPT ![r.name._value] = <<r>>]
        /\ call' = Call("add_record", <<r.name._value>>, None, "None")
        /\ book_before' = address_book
        /\ UNCHANGED <<generator, pages, at_call, modified, loop_vars, record_vars>>

book_delete ==
    \E n \in BookNames :
        /\ address_book' = delete(address_book, n)
        /\ last_added' = [last_added EXCEPT ![n] = None]
        /\ call' = Call("delete", <<n>>, None, "None")
        /\ book_before' = address_book
        /\ UNCHANGED <<generator, pages, at_call, modified, loop_vars, record_vars>>

book_find ==
    \E n \in BookNames :
        /\ call' = Call("find", <<n>>, find(address_book, n), "None")
        /\ book_before' = address_book
        /\ UNCHANGED <<address_book, book_vars, loop_vars, record_vars>>

NextBook ==
    \/ book_add_record
    \/ book_delete
    \/ book_find

SpecBook == InitBook /\ [][NextBook]_vars

(***************************************************************************)
(* AddressBook.iterator (src/main.py 20-27): the generator iterator it     *)
(* returns, next() on it, and add_record / delete between the draws.       *)
(***************************************************************************)
IterRecords == {add_phone(Record(n, None), 0, phone10) : n \in BookNames}
PageSizes == (0 - MaxPageSize)..MaxPageSize

InitIter == InitBook

\* a change of the book while a generator is being drawn from is counted
Touched ==
    /\ (generator.pc # "none" /\ address_book' # address_book)
           => modified < MaxChanges
    /\ modified' = IF generator.pc # "none" /\ address_book' # address_book
                   THEN modified + 1 ELSE modified

iter_add_record ==
    \E r \in IterRecords :
        /\ address_book' = add_record(address_book, r)
        /\ Touched
        /\ UNCHANGED <<generator, pages, at_call, last_added, call, book_before,
                       loop_vars, record_vars>>

iter_delete ==
    \E n \in BookNames :
        /\ address_book' = delete(address_book, n)
        /\ Touched
        /\ UNCHANGED <<generator, pages, at_call, last_added, call, book_before,
                       loop_vars, record_vars>>

\* AddressBook.iterator(page_size): returns the generator iterator; none of
\* the body of address_generator runs before the first next()
iterator(page_size) ==
    [pc |-> "start", page_size |-> page_size, current_page |-> 0]

iter_iterator ==
    \E page_size \in PageSizes :
        /\ generator' = iterator(page_size)
        /\ pages' = <<>>
        /\ at_call' = dict_values(address_book)
        /\ modified' = 0
        /\ UNCHANGED <<address_book, last_added, call, book_before, loop_vars,
                       record_vars>>

\* address_generator as current_page += 1 would have it
address_generator_by_one(gen, data) ==
    LET current_page == IF gen.pc = "start" THEN 0 ELSE gen.current_page + 1
    IN  IF current_page < Len(data)
        THEN [generator |-> [gen EXCEPT !.pc = "suspended",
                                        !.current_page = current_page],
              yielded |-> <<slice(dict_values(data), current_page,
                                  current_page + gen.page_size)>>]
        ELSE [generator |-> [gen EXCEPT !.pc = "done",
                                        !.current_page = current_page],
              yielded |-> None]

\* next(generator): address_generator runs from where it stands to its next
\* yield, or to its end (StopIteration).  It reads self.data when it runs.
address_generator(gen, data) ==
    LET current_page == IF gen.pc = "start" THEN 0
                        ELSE gen.current_page + gen.page_size
    IN  IF current_page < Len(data)
        THEN [generator |-> [gen EXCEPT !.pc = "suspended",
                                        !.current_page = current_page],
              yielded |-> <<slice(dict_values(data), current_page,
                                  current_page + gen.page_size)>>]
        ELSE [generator |-> [gen EXCEPT !.pc = "done",
                                        !.current_page = current_page],
              yielded |-> None]

iter_next ==
    LET step == address_generator(generator, address_book) IN
    /\ generator.pc \in {"start", "suspended"}
    /\ Len(pages) < MaxPages
    /\ generator' = step.generator
    /\ pages' = pages \o step.yielded
    /\ UNCHANGED <<address_book, at_call, modified, last_added, call,
                   book_before, loop_vars, record_vars>>

NextIter ==
    \/ iter_add_record
    \/ iter_delete
    \/ iter_iterator
    \/ iter_next

SpecIter == InitIter /\ [][NextIter]_vars

(***************************************************************************)
(* One Record driven through its methods (src/main.py 79-116).             *)
(***************************************************************************)
bday_leap == <<"2", "9", "-", "0", "2", "-", "1", "9", "9", "2">>
Numbers == {phone10, phone10b}
RecordBirthdays == {None, <<bday_ok>>, <<bday_bad>>, <<bday_leap>>}

\* the birthday_date arguments of days_to_birthday: None (the default) or
\* the datetime a caller passes
BirthdayDates ==
    {None,
     <<[year |-> 1990, month |-> 6, day |-> 1, hour |-> 0]>>,
     <<[year |-> 1990, month |-> 11, day |-> 3, hour |-> 0]>>,
     <<[year |-> 1992, month |-> 2, day |-> 29, hour |-> 0]>>}

InitRecord ==
    /\ record \in {Record(alice, b) : b \in RecordBirthdays}
    /\ record_before = record
    /\ next_id = 0
    /\ call = NoCall
    /\ address_book = <<>>
    /\ book_before = <<>>
    /\ LoopIdle /\ BookIdle

Called(c) ==
    /\ call' = c
    /\ record_before' = record
    /\ UNCHANGED <<address_book, book_before, loop_vars, book_vars>>

rec_add_phone ==
    \E number \in Numbers :
        /\ Len(record.phones) < MaxPhones
        /\ next_id < MaxPhoneObjects
        /\ record' = add_phone(record, next_id, number)
        /\ next_id' = next_id + 1
        /\ Called(Call("add_phone", <<number>>, None, "None"))

rec_remove_phone ==
    \E number \in Numbers :
        /\ record' = remove_phone(record, number)
        /\ UNCHANGED next_id
        /\ Called(Call("remove_phone", <<number>>, None, "None"))

rec_edit_phone ==
    \E old_number \in Numbers, new_number \in Numbers :
        LET done == edit_phone(record, next_id, old_number, new_number) IN
        /\ next_id < MaxPhoneObjects
        /\ record' = done.self
        /\ next_id' = IF done.raised = "None" THEN next_id + 1 ELSE next_id
        /\ Called(Call("edit_phone", <<old_number, new_number>>, None, done.raised))

rec_find_phone ==
    \E number \in Numbers :
        /\ UNCHANGED <<record, next_id>>
        /\ Called(Call("find_phone", <<number>>, find_phone(record, number), "None"))

rec_days_to_birthday ==
    \E birthday_date \in BirthdayDates, today \in Clock :
        LET days_left == days_to_birthday(record, birthday_date, today) IN
        /\ UNCHANGED <<record, next_id>>
        /\ Called(Call("days_to_birthday", <<>>, days_left.value, days_left.raised))

NextRecord ==
    \/ rec_add_phone
    \/ rec_remove_phone
    \/ rec_edit_phone
    \/ rec_find_phone
    \/ rec_days_to_birthday

SpecRecord == InitRecord /\ [][NextRecord]_vars

(***************************************************************************)
(* Properties                                                              *)
(***************************************************************************)
Range(seq) == {seq[i] : i \in 1..Len(seq)}

RECURSIVE Flatten(_)
Flatten(seqs) == IF seqs = <<>> THEN <<>> ELSE Head(seqs) \o Flatten(Tail(seqs))

\* ceil(n / k) for k >= 1
Ceil(n, k) == (n + k - 1) \div k

\* ^[0-9]{10}$
IsTenDigits(s) == Len(s) = 10 /\ \A i \in 1..Len(s) : s[i] \in Digits

\* the sequence without its first element whose value is number
RemoveFirst(phones, number) ==
    IF \E i \in 1..Len(phones) : phones[i]._value = number
    THEN LET i == CHOOSE k \in 1..Len(phones) :
                      /\ phones[k]._value = number
                      /\ \A j \in 1..(k - 1) : phones[j]._value # number
         IN  SubSeq(phones, 1, i - 1) \o SubSeq(phones, i + 1, Len(phones))
    ELSE phones

\* C1: a line that is not a terminal phrase never ends the session: the
\* session leaves Running only by "good bye", "close" or "exit", and then it
\* is Terminated (no failure escapes the loop).
C1_OnlyTerminalPhraseEndsSession ==
    state # "Running" => (state = "Terminated" /\ command \in TerminalPhrases)

\* C2: after an add command whose phone argument is not exactly 10 decimal
\* digits, the command was rejected and the address book is what it was
\* before the command.
C2_InvalidPhoneRejected ==
    LET parts == split(command, " ") IN
    (/\ startswith(command, w_add \o SP)
     /\ Len(parts) >= 3
     /\ ~IsTenDigits(parts[3]))
        => (address_book = book_before /\ output.msg # "Record added")

\* C3: the birthday command on a stored record that has a birthday (a
\* calendar date in DD-MM-YYYY) prints a non-negative number of days; it
\* neither fails nor reports that there is no birthday.
C3_BirthdayDaysNonNegative ==
    LET name == split1(command, " ")[2]
        found == find(book_before, name)
    IN  (/\ startswith(command, w_birthday \o SP)
         /\ found # None
         /\ found[1].birthday # None
         /\ as_datetime(found[1].birthday[1]).raised = "None")
            => (state = "Running" /\ output.msg = "Days left" /\ output.days >= 0)

\* C10: in the command loop every record of the book holds exactly one phone
\* and is stored under its own name, one record per key; add stores a fresh
\* record with exactly the given phone and the given birthday (or none), and
\* edit replaces the phone list by exactly [new_phone], keeps the birthday
\* and touches no other record.
C10_OnePhonePerRecord ==
    LET parts == split(command, " ") IN
    /\ \A i \in 1..Len(address_book) :
           /\ Len(address_book[i].value.phones) = 1
           /\ address_book[i].key = address_book[i].value.name._value
    /\ \A i, j \in 1..Len(address_book) :
           i # j => address_book[i].key # address_book[j].key
    /\ (startswith(command, w_add \o SP) /\ Len(parts) >= 3)
           => /\ find(address_book, parts[2]) # None
              /\ Record_str(find(address_book, parts[2])[1])
                     = [Name |-> parts[2],
                        Phones |-> <<parts[3]>>,
                        Birthday |-> IF Len(parts) > 3 /\ parts[4] # <<>>
                                     THEN parts[4] ELSE NotSpecified]
    /\ (/\ startswith(command, w_edit \o SP)
        /\ Len(parts) = 3
        /\ find(book_before, parts[2]) # None)
           => /\ Len(address_book) = Len(book_before)
              /\ \A i \in 1..Len(address_book) :
                     IF book_before[i].key = parts[2]
                     THEN /\ phone_values(address_book[i].value) = <<parts[3]>>
                          /\ address_book[i].value.birthday
                                 = book_before[i].value.birthday
                          /\ address_book[i].key = parts[2]
                     ELSE address_book[i] = book_before[i]

\* an edit of a record that has a birthday and another phone, beside a
\* second record
C10_Witness ==
    LET parts == split(command, " ") IN
    /\ startswith(command, w_edit \o SP)
    /\ Len(parts) = 3
    /\ Len(book_before) = 2
    /\ find(book_before, parts[2]) # None
    /\ find(book_before, parts[2])[1].birthday # None
    /\ phone_values(find(book_before, parts[2])[1]) # <<parts[3]>>
    /\ phone_values(find(address_book, parts[2])[1]) = <<parts[3]>>

\* C4: with page_size k >= 1 and the book unchanged since iterator was
\* called, the generator yields ceil(n/k) pages and stops; every page but
\* the last has k records, the last has 1..k, and the pages in order are the
\* book's records in order.
C4_PagesPartitionTheBook ==
    (generator.pc # "none" /\ generator.page_size >= 1 /\ modified = 0) =>
        LET k == generator.page_size
            values == dict_values(address_book)
            n == Len(values)
            drawn == Flatten(pages)
        IN  /\ Len(pages) <= Ceil(n, k)
            /\ \A i \in 1..Len(pages) :
                   /\ Len(pages[i]) \in 1..k
                   /\ i < Ceil(n, k) => Len(pages[i]) = k
            /\ Len(drawn) <= n
            /\ drawn = SubSeq(values, 1, Len(drawn))
            /\ generator.pc = "done" => (Len(pages) = Ceil(n, k) /\ drawn = values)
            /\ generator.pc = "suspended" => Len(pages) >= 1

\* three records drawn to the end in pages of two
C4_Witness ==
    /\ generator.pc = "done"
    /\ generator.page_size = 2
    /\ modified = 0
    /\ Len(address_book) = 3
    /\ Len(pages) = 2
    /\ Len(pages[2]) = 1

\* C5: iterator with page_size <= 0 fails (it returns no generator) and no
\* page is ever produced for such a page_size.
C5_NonPositivePageSizeFails ==
    generator.page_size <= 0 => (generator.pc = "none" /\ pages = <<>>)

\* C6: the pages of one iterator call are those of the book as it was at the
\* call: whatever add_record / delete happen between the draws, the pages
\* hold only records of that time, are at most ceil(n/k), and when the
\* generator ends they hold every record of that time exactly once.
C6_PagesFixedAtCall ==
    (generator.pc # "none" /\ generator.page_size >= 1) =>
        LET k == generator.page_size
            n == Len(at_call)
            drawn == Flatten(pages)
        IN  /\ Range(drawn) \subseteq Range(at_call)
            /\ Len(pages) <= Ceil(n, k)
            /\ generator.pc = "done" =>
                   /\ Len(drawn) = n
                   /\ Range(drawn) = Range(at_call)

\* C9: find returns the record last added under the name and not deleted
\* since, None otherwise; there is one record per name; deleting an absent
\* name leaves the book as it was.
C9_FindReturnsLastAdded ==
    /\ \A n \in BookNames : find(address_book, n) = last_added[n]
    /\ \A i, j \in 1..Len(address_book) :
           i # j => address_book[i].key # address_book[j].key
    /\ call.op = "find" => call.result = last_added[call.args[1]]
    /\ (call.op = "delete" /\ ~dict_contains(book_before, call.args[1]))
           => address_book = book_before

\* add_record has replaced a different record of the same name, beside
\* another record
C9_Witness ==
    /\ call.op = "add_record"
    /\ Len(book_before) >= 2
    /\ find(book_before, call.args[1]) # None
    /\ find(book_before, call.args[1]) # find(address_book, call.args[1])
    /\ Len(address_book) = Len(book_before)

\* C7: edit_phone(old, new) with old among the phones and new # old leaves
\* new among the phones and no occurrence of old; with old absent it raises
\* and leaves the phones as they were.
C7_EditPhoneReplacesOld ==
    call.op = "edit_phone" =>
        LET old == call.args[1]
            new == call.args[2]
        IN  IF old \in Range(phone_values(record_before))
            THEN new # old =>
                     /\ call.raised = "None"
                     /\ new \in Range(phone_values(record))
                     /\ old \notin Range(phone_values(record))
            ELSE /\ call.raised = "ValueError"
                 /\ record.phones = record_before.phones

\* C8: remove_phone(number) removes exactly the first phone whose value is
\* number and keeps every other phone, later duplicates included, in order;
\* with no such phone the list is unchanged; it never raises.
C8_RemovePhoneRemovesFirstOnly ==
    call.op = "remove_phone" =>
        /\ call.raised = "None"
        /\ record.phones = RemoveFirst(record_before.phones, call.args[1])

====
